---- MODULE Spec2Model ----
(***************************************************************************)
(* Model of run_and_monitor_memory.py: the main thread (main,              *)
(* fork_with_pipe, wait_for_child), the daemon MemoryMonitoringThread, the *)
(* pipe whose write end the launched process tree inherits, and the        *)
(* processes of that tree.                                                 *)
(*                                                                         *)
(* Memory totals are kept in kilobytes.  all_ps_memory_usage multiplies    *)
(* every RSS field by KB_TO_MB = 1/1024, a power of two, so the float      *)
(* total in megabytes is exactly (total in KB)/1024 and comparing totals   *)
(* in KB is comparing them in MB.  Only the '%.3f' formatting of the       *)
(* report rounds; Fmt3 models it.                                          *)
(*                                                                         *)
(* The processes of the tree fork, close the inherited write end, exit or  *)
(* are killed.  They do not write to the pipe: that is the premise of      *)
(* wait_for_child's docstring ("a pipe, which is never written to").       *)
(* The interpreter is Python 2.7, the version the script is written for:   *)
(* the descriptors of os.pipe() are inherited across fork and exec.        *)
(***************************************************************************)
EXTENDS Integers, Sequences, FiniteSets, TLC

\* ---------------------------------------------------------------- bounds
MaxDesc == 1          \* descendants the launched child's tree may spawn
MaxTicks == 2         \* sampler ticks modelled (the loop itself is unbounded)
MaxRows == 1          \* process rows in one `ps aux` table

\* ------------------------------------------------------ program constants
StatusShift == 256    \* 2 ** 8 in wait_for_child
KbPerMb == 1024       \* KB_TO_MB = 1. / 1024
MaxExitCode == StatusShift - 1   \* exit codes of a process are one byte
CoreFlag == StatusShift \div 2   \* core-dump bit (0x80) of a raw wait status

ChildPid == 1
Descendants == 2..(1 + MaxDesc)
Pids == {ChildPid} \cup Descendants
ExitCodes == 0..MaxExitCode
\* the exit codes the launched command is run with in Spec (SpecSolo runs it
\* with every exit code), and the ways it is killed: <<signal, core-dump bit>>,
\* SIGKILL and SIGSEGV with a core dump
SampleCodes == {0, 1, MaxExitCode}
Kills == {<<9, 0>>, <<11, CoreFlag>>}
RssFields == {1, 2}   \* RSS fields (KB) a row may carry
\* a row of `ps aux` after the header: ok is FALSE when its RSS column is
\* missing or is not a number, else rss is the column's value in KB
BadRow == [ok |-> FALSE, rss |-> 0]
PsRows == {[ok |-> TRUE, rss |-> n] : n \in RssFields} \cup {BadRow}
PsTables == UNION {[1..n -> PsRows] : n \in 0..MaxRows}

VARIABLES
    argv_len,              \* len(sys.argv)
    mpc,                   \* position of the main thread
    pid,                   \* pid returned by os.fork (0: not forked yet)
    fds,                   \* pipe ends open in the supervising process
    proc,                  \* state of every process of the launched tree
    holds_w,               \* tree processes holding the pipe's write end
    raw,                   \* raw wait status of the direct child (-1: running)
    launch_failed,         \* os.execvp raised in the forked child
    desc_failed,           \* descendants that exited with a non-zero status
    pipe_data,             \* bytes written to the pipe and not yet read
    exit_status,           \* wait_for_child's result (-1: not computed yet)
    stderr,                \* lines the supervisor wrote to stderr
    sup_exit,              \* the supervisor's own exit code (-1: running)
    memory_use_lock,       \* owner of memory_use_lock: "free", "main", "sampler"
    max_child_memory_use,  \* the peak holder, in KB
    spc,                   \* position of the MemoryMonitoringThread
    total,                 \* value all_ps_memory_usage() returned to run()
    ticks,                 \* completed sampler ticks
    sampled,               \* history: totals the snapshots returned
    early,                 \* history: totals of snapshots begun before main took the lock
    live,                  \* history: totals of snapshots taken while the tree was alive
    applied,               \* history: totals run() has stored through max()
    failed,                \* history: number of snapshot calls that raised
    reported               \* history: value main passed to the report (-1: none)

vars == <<argv_len, mpc, pid, fds, proc, holds_w, raw, launch_failed, desc_failed,
          pipe_data, exit_status, stderr,
          sup_exit, memory_use_lock, max_child_memory_use, spc, total, ticks,
          sampled, early, live, applied, failed, reported>>

mainVars == <<argv_len, mpc, pid, fds, exit_status, stderr, sup_exit, reported>>
treeVars == <<proc, holds_w, raw, launch_failed, desc_failed, pipe_data>>
samplerVars == <<spc, total, ticks, sampled, early, live, applied, failed>>

\* ------------------------------------------------------------- helpers
Max(a, b) == IF a >= b THEN a ELSE b

RECURSIVE SumRss(_, _)
SumRss(t, i) == IF i > Len(t) THEN 0 ELSE t[i].rss + SumRss(t, i + 1)

\* float(line.split()[RSS_COL]) succeeds on every row
Parses(out) == \A i \in 1..Len(out) : out[i].ok

\* total RSS of a table whose rows all parse
all_ps_memory_usage(out) == SumRss(out, 1)

\* '%.3f' % (kb / 1024.): thousandths of a megabyte, round-half-to-even
Fmt3(kb) ==
    LET n == kb * 1000
        q == n \div KbPerMb
        r == n % KbPerMb
    IN  IF 2 * r > KbPerMb THEN q + 1
        ELSE IF 2 * r < KbPerMb THEN q
        ELSE IF q % 2 = 0 THEN q ELSE q + 1

\* mutant: the low byte of the raw status instead of the high one
DecodeStatusLowByte(indicator) == indicator % StatusShift

\* exit_status_indicator // (2 ** 8)
DecodeStatus(indicator) == indicator \div StatusShift

\* the exit code the process ends with after sys.exit(n)
SysExitCode(n) == n % StatusShift

\* a line written by print_stderr: the format string and its argument
Line(text, arg) == [text |-> text, arg |-> arg]
UsageLine == Line("USAGE", 0)
DashLine == Line("----------------------", 0)
MaxLine(peak) == Line("Max memory use: %.3fMb", Fmt3(peak))
ReportLines(peak) == <<DashLine, MaxLine(peak), DashLine>>
StatusLine(s) == Line("Child exited with status: %r", s)

Alive(p) == proc[p] \in {"forked", "running"}
MainExited == mpc = "exited"
\* the supervising process holds no write end and neither does any tree process
NoWriters == holds_w = {} /\ "pipe_w" \notin fds
ChildTerminated == raw # -1
TreeGone == ChildTerminated /\ holds_w = {}
\* os.read in wait_for_child has returned
ReadReturned ==
    \/ mpc \in {"close_r", "lock", "report", "release", "check_status", "sys_exit"}
    \/ mpc = "exited" /\ exit_status # -1
\* main has entered its `with memory_use_lock` block (and maybe left it)
MainTookLock ==
    \/ mpc \in {"report", "release", "check_status", "sys_exit"}
    \/ mpc = "exited" /\ exit_status # -1

\* --------------------------------------------------------------- Init
Init ==
    /\ argv_len \in {1, 2}
    /\ mpc = "check_argv"
    /\ pid = 0
    /\ fds = {}
    /\ proc = [p \in Pids |-> "unborn"]
    /\ holds_w = {}
    /\ raw = -1
    /\ launch_failed = FALSE
    /\ desc_failed = {}
    /\ pipe_data = 0
    /\ exit_status = -1
    /\ stderr = <<>>
    /\ sup_exit = -1
    /\ memory_use_lock = "free"
    /\ max_child_memory_use = 0
    /\ spc = "unstarted"
    /\ total = 0
    /\ ticks = 0
    /\ sampled = {}
    /\ early = {}
    /\ live = {}
    /\ applied = {}
    /\ failed = 0
    /\ reported = -1

\* ------------------------------------------------------- main thread
\* mutant: the argument count is compared with 1, so a bare invocation goes on
MainCheckArgvOffByOne ==
    /\ mpc = "check_argv"
    /\ IF argv_len < 1
       THEN /\ stderr' = Append(stderr, UsageLine)
            /\ sup_exit' = 1
            /\ mpc' = "exited"
       ELSE /\ mpc' = "pipe"
            /\ UNCHANGED <<stderr, sup_exit>>
    /\ UNCHANGED <<argv_len, pid, fds, exit_status, reported, treeVars,
                   memory_use_lock, max_child_memory_use, samplerVars>>

\* main: if len(sys.argv) < 2: print usage, sys.exit(1)
MainCheckArgv ==
    /\ mpc = "check_argv"
    /\ IF argv_len < 2
       THEN /\ stderr' = Append(stderr, UsageLine)
            /\ sup_exit' = 1
            /\ mpc' = "exited"
       ELSE /\ mpc' = "pipe"
            /\ UNCHANGED <<stderr, sup_exit>>
    /\ UNCHANGED <<argv_len, pid, fds, exit_status, reported, treeVars,
                   memory_use_lock, max_child_memory_use, samplerVars>>

\* fork_with_pipe: pipe_r, pipe_w = os.pipe()
FwpPipe ==
    /\ mpc = "pipe"
    /\ fds' = {"pipe_r", "pipe_w"}
    /\ mpc' = "fork"
    /\ UNCHANGED <<argv_len, pid, exit_status, stderr, sup_exit, reported, treeVars,
                   memory_use_lock, max_child_memory_use, samplerVars>>

\* fork_with_pipe: pid = os.fork(); the child is a copy holding both pipe ends
FwpFork ==
    /\ mpc = "fork"
    /\ pid' = ChildPid
    /\ proc' = [proc EXCEPT ![ChildPid] = "forked"]
    /\ holds_w' = holds_w \cup {ChildPid}
    /\ mpc' = "close_w"
    /\ UNCHANGED <<argv_len, fds, exit_status, stderr, sup_exit, reported, raw,
                   launch_failed, desc_failed, pipe_data,
                   memory_use_lock, max_child_memory_use, samplerVars>>

\* mutant: the supervisor closes the read end and keeps the write end
FwpCloseWrongEnd ==
    /\ mpc = "close_w"
    /\ fds' = fds \ {"pipe_r"}
    /\ mpc' = "thread_start"
    /\ UNCHANGED <<argv_len, pid, exit_status, stderr, sup_exit, reported, treeVars,
                   memory_use_lock, max_child_memory_use, samplerVars>>

\* mutant: the supervisor forgets to close its copy of the write end
FwpCloseWForgets ==
    /\ mpc = "close_w"
    /\ mpc' = "thread_start"
    /\ UNCHANGED <<argv_len, pid, fds, exit_status, stderr, sup_exit, reported, treeVars,
                   memory_use_lock, max_child_memory_use, samplerVars>>

\* fork_with_pipe: os.close(pipe_w); return pid, pipe_r
FwpCloseW ==
    /\ mpc = "close_w"
    /\ fds' = fds \ {"pipe_w"}
    /\ mpc' = "thread_start"
    /\ UNCHANGED <<argv_len, pid, exit_status, stderr, sup_exit, reported, treeVars,
                   memory_use_lock, max_child_memory_use, samplerVars>>

\* mutant: the thread is started although fork_with_pipe has not forked yet
MainStartThreadEarly ==
    /\ \/ mpc = "pipe" /\ spc = "unstarted" /\ mpc' = "pipe"
       \/ mpc = "thread_start" /\ mpc' = "waitpid"
    /\ spc' = IF spc = "unstarted" THEN "acquire" ELSE spc
    /\ UNCHANGED <<argv_len, pid, fds, exit_status, stderr, sup_exit, reported, treeVars,
                   memory_use_lock, max_child_memory_use, total, ticks, sampled, early,
                   live, applied, failed>>

\* main: monitor_memory = MemoryMonitoringThread(); monitor_memory.start()
MainStartThread ==
    /\ mpc = "thread_start"
    /\ spc' = "acquire"
    /\ mpc' = "waitpid"
    /\ UNCHANGED <<argv_len, pid, fds, exit_status, stderr, sup_exit, reported, treeVars,
                   memory_use_lock, max_child_memory_use, total, ticks, sampled, early,
                   live, applied, failed>>

\* mutant: wait_for_child returns at once when the child was killed by a signal
WfcWaitpidSkipsReadOnSignal ==
    /\ mpc = "waitpid"
    /\ proc[pid] = "zombie"
    /\ proc' = [proc EXCEPT ![pid] = "reaped"]
    /\ exit_status' = DecodeStatus(raw)
    /\ mpc' = IF raw % CoreFlag # 0 THEN "close_r" ELSE "read"
    /\ UNCHANGED <<argv_len, pid, fds, stderr, sup_exit, reported, holds_w, raw,
                   launch_failed, desc_failed, pipe_data,
                   memory_use_lock, max_child_memory_use, samplerVars>>

\* wait_for_child: _, exit_status_indicator = os.waitpid(pid, 0);
\*                 exit_status = exit_status_indicator // (2 ** 8)
WfcWaitpid ==
    /\ mpc = "waitpid"
    /\ proc[pid] = "zombie"
    /\ proc' = [proc EXCEPT ![pid] = "reaped"]
    /\ exit_status' = DecodeStatus(raw)
    /\ mpc' = "read"
    /\ UNCHANGED <<argv_len, pid, fds, stderr, sup_exit, reported, holds_w, raw,
                   launch_failed, desc_failed, pipe_data,
                   memory_use_lock, max_child_memory_use, samplerVars>>

\* mutant: the read does not block while the write end is held
WfcReadNonBlocking ==
    /\ mpc = "read"
    /\ mpc' = "close_r"
    /\ UNCHANGED <<argv_len, pid, fds, exit_status, stderr, sup_exit, reported, treeVars,
                   memory_use_lock, max_child_memory_use, samplerVars>>

\* wait_for_child: os.read(pipe_r, 1) returns a byte if the pipe holds one, and
\* otherwise (end of file) once the write end has no holder left
WfcRead ==
    /\ mpc = "read"
    /\ pipe_data > 0 \/ NoWriters
    /\ pipe_data' = IF pipe_data > 0 THEN pipe_data - 1 ELSE pipe_data
    /\ mpc' = "close_r"
    /\ UNCHANGED <<argv_len, pid, fds, exit_status, stderr, sup_exit, reported, proc,
                   holds_w, raw, launch_failed, desc_failed,
                   memory_use_lock, max_child_memory_use, samplerVars>>

\* wait_for_child: os.close(pipe_r); return exit_status
WfcCloseR ==
    /\ mpc = "close_r"
    /\ fds' = fds \ {"pipe_r"}
    /\ mpc' = "lock"
    /\ UNCHANGED <<argv_len, pid, exit_status, stderr, sup_exit, reported, treeVars,
                   memory_use_lock, max_child_memory_use, samplerVars>>

\* mutant: main reads the peak without taking memory_use_lock
MainAcquireNoLock ==
    /\ mpc = "lock"
    /\ mpc' = "report"
    /\ UNCHANGED <<argv_len, pid, fds, exit_status, stderr, sup_exit, reported, treeVars,
                   memory_use_lock, max_child_memory_use, samplerVars>>

\* main: with memory_use_lock:   (acquire)
MainAcquire ==
    /\ mpc = "lock"
    /\ memory_use_lock = "free"
    /\ memory_use_lock' = "main"
    /\ mpc' = "report"
    /\ UNCHANGED <<argv_len, pid, fds, exit_status, stderr, sup_exit, reported, treeVars,
                   max_child_memory_use, samplerVars>>

\* main: the three print_stderr calls of the report
MainReport ==
    /\ mpc = "report"
    /\ stderr' = stderr \o ReportLines(max_child_memory_use)
    /\ reported' = max_child_memory_use
    /\ mpc' = "release"
    /\ UNCHANGED <<argv_len, pid, fds, exit_status, sup_exit, treeVars,
                   memory_use_lock, max_child_memory_use, samplerVars>>

\* main: leaving the with block releases memory_use_lock
MainRelease ==
    /\ mpc = "release"
    /\ memory_use_lock' = "free"
    /\ mpc' = "check_status"
    /\ UNCHANGED <<argv_len, pid, fds, exit_status, stderr, sup_exit, reported, treeVars,
                   max_child_memory_use, samplerVars>>

\* mutant: a failing child's status is propagated without the status line
MainCheckStatusSilent ==
    /\ mpc = "check_status"
    /\ IF exit_status # 0
       THEN /\ mpc' = "sys_exit"
            /\ UNCHANGED sup_exit
       ELSE /\ sup_exit' = 0
            /\ mpc' = "exited"
    /\ UNCHANGED <<argv_len, pid, fds, exit_status, stderr, reported, treeVars,
                   memory_use_lock, max_child_memory_use, samplerVars>>

\* main: if exit_status != 0: print the status line; else fall off the end
MainCheckStatus ==
    /\ mpc = "check_status"
    /\ IF exit_status # 0
       THEN /\ stderr' = Append(stderr, StatusLine(exit_status))
            /\ mpc' = "sys_exit"
            /\ UNCHANGED sup_exit
       ELSE /\ sup_exit' = 0
            /\ mpc' = "exited"
            /\ UNCHANGED stderr
    /\ UNCHANGED <<argv_len, pid, fds, exit_status, reported, treeVars,
                   memory_use_lock, max_child_memory_use, samplerVars>>

\* mutant: a failed descendant also makes the supervisor fail
MainSysExitAnyFailure ==
    /\ mpc = "sys_exit"
    /\ sup_exit' = IF desc_failed # {} THEN 1 ELSE SysExitCode(exit_status)
    /\ mpc' = "exited"
    /\ UNCHANGED <<argv_len, pid, fds, exit_status, stderr, reported, treeVars,
                   memory_use_lock, max_child_memory_use, samplerVars>>

\* main: sys.exit(exit_status)
MainSysExit ==
    /\ mpc = "sys_exit"
    /\ sup_exit' = SysExitCode(exit_status)
    /\ mpc' = "exited"
    /\ UNCHANGED <<argv_len, pid, fds, exit_status, stderr, reported, treeVars,
                   memory_use_lock, max_child_memory_use, samplerVars>>

\* ------------------------------------------------ the launched tree
\* fork_with_pipe, in the child: os.execvp(executable, args) succeeds
ChildExec ==
    /\ proc[ChildPid] = "forked"
    /\ proc' = [proc EXCEPT ![ChildPid] = "running"]
    /\ UNCHANGED <<mainVars, holds_w, raw, launch_failed, desc_failed, pipe_data,
                   memory_use_lock, max_child_memory_use, samplerVars>>

\* fork_with_pipe, in the child: os.execvp raises OSError; the forked copy of
\* the interpreter dies of the uncaught exception with exit code 1
ChildExecFails ==
    /\ proc[ChildPid] = "forked"
    /\ proc' = [proc EXCEPT ![ChildPid] = "zombie"]
    /\ raw' = 1 * StatusShift
    /\ holds_w' = holds_w \ {ChildPid}
    /\ launch_failed' = TRUE
    /\ UNCHANGED <<mainVars, desc_failed, pipe_data, memory_use_lock,
                   max_child_memory_use, samplerVars>>

\* a running process of the tree forks: the new process inherits the write
\* end iff its parent still holds it
ProcFork(p) ==
    /\ proc[p] = "running"
    /\ \E d \in Descendants :
        /\ proc[d] = "unborn"
        /\ \A e \in Descendants : e < d => proc[e] # "unborn"
        /\ proc' = [proc EXCEPT ![d] = "running"]
        /\ holds_w' = IF p \in holds_w THEN holds_w \cup {d} ELSE holds_w
    /\ UNCHANGED <<mainVars, raw, launch_failed, desc_failed, pipe_data,
                   memory_use_lock, max_child_memory_use, samplerVars>>

\* a running process of the tree explicitly closes the inherited write end
ProcCloseW(p) ==
    /\ proc[p] = "running"
    /\ p \in holds_w
    /\ holds_w' = holds_w \ {p}
    /\ UNCHANGED <<mainVars, proc, raw, launch_failed, desc_failed, pipe_data,
                   memory_use_lock, max_child_memory_use, samplerVars>>

\* the direct child exits normally with code c: raw wait status c << 8
ChildExit(c) ==
    /\ proc[ChildPid] = "running"
    /\ proc' = [proc EXCEPT ![ChildPid] = "zombie"]
    /\ raw' = c * StatusShift
    /\ holds_w' = holds_w \ {ChildPid}
    /\ UNCHANGED <<mainVars, launch_failed, desc_failed, pipe_data, memory_use_lock,
                   max_child_memory_use, samplerVars>>

\* the direct child is killed by signal s: raw wait status s (| 0x80 on core dump)
ChildKilled(s, core) ==
    /\ proc[ChildPid] = "running"
    /\ proc' = [proc EXCEPT ![ChildPid] = "zombie"]
    /\ raw' = s + core
    /\ holds_w' = holds_w \ {ChildPid}
    /\ UNCHANGED <<mainVars, launch_failed, desc_failed, pipe_data, memory_use_lock,
                   max_child_memory_use, samplerVars>>

\* a descendant terminates, successfully (ok) or with a failure status; its
\* status is collected by nobody in this program
DescExit(d, ok) ==
    /\ proc[d] = "running"
    /\ proc' = [proc EXCEPT ![d] = "dead"]
    /\ holds_w' = holds_w \ {d}
    /\ desc_failed' = IF ok THEN desc_failed ELSE desc_failed \cup {d}
    /\ UNCHANGED <<mainVars, raw, launch_failed, pipe_data, memory_use_lock,
                   max_child_memory_use, samplerVars>>

\* --------------------------------------------- MemoryMonitoringThread.run
\* The thread is a daemon: it runs only while the main thread has not exited.
\* mutant: the sampler takes its snapshot without holding memory_use_lock
SamplerAcquireNoLock ==
    /\ spc = "acquire"
    /\ ~MainExited
    /\ spc' = "sample"
    /\ UNCHANGED <<mainVars, treeVars, memory_use_lock, max_child_memory_use, total,
                   ticks, sampled, early, live, applied, failed>>

\* run: with memory_use_lock:   (acquire)
SamplerAcquire ==
    /\ spc = "acquire"
    /\ ~MainExited
    /\ memory_use_lock = "free"
    /\ memory_use_lock' = "sampler"
    /\ spc' = "sample"
    /\ UNCHANGED <<mainVars, treeVars, max_child_memory_use, total, ticks, sampled,
                   early, live, applied, failed>>

\* run: all_ps_memory_usage() returns the total of a table (one of `tables`)
\* whose rows all parse
SamplerSnapshot(tables) ==
    /\ spc = "sample"
    /\ ~MainExited
    /\ \E out \in tables :
        /\ Parses(out)
        /\ total' = all_ps_memory_usage(out)
        /\ sampled' = sampled \cup {total'}
        /\ early' = IF MainTookLock THEN early ELSE early \cup {total'}
        /\ live' = IF TreeGone THEN live ELSE live \cup {total'}
    /\ spc' = "store"
    /\ UNCHANGED <<mainVars, treeVars, memory_use_lock, max_child_memory_use, ticks,
                   applied, failed>>

\* mutant: the exception ends the thread without releasing the lock
SamplerSnapshotRaisesKeepsLock ==
    /\ spc = "sample"
    /\ ~MainExited
    /\ spc' = "dead"
    /\ failed' = failed + 1
    /\ UNCHANGED <<mainVars, treeVars, memory_use_lock, max_child_memory_use, total,
                   ticks, sampled, early, live, applied>>

\* run: all_ps_memory_usage() raises (subprocess.check_output fails, or a row
\* of its table does not parse); the with block releases the lock and the
\* uncaught exception ends the thread
SamplerSnapshotRaises ==
    /\ spc = "sample"
    /\ ~MainExited
    /\ \E available \in BOOLEAN, out \in PsTables : ~available \/ ~Parses(out)
    /\ memory_use_lock' = "free"
    /\ spc' = "dead"
    /\ failed' = failed + 1
    /\ UNCHANGED <<mainVars, treeVars, max_child_memory_use, total, ticks, sampled,
                   early, live, applied>>

\* mutant: the latest total overwrites the peak (no max)
SamplerStoreLast ==
    /\ spc = "store"
    /\ ~MainExited
    /\ max_child_memory_use' = total
    /\ applied' = applied \cup {total}
    /\ spc' = "release"
    /\ UNCHANGED <<mainVars, treeVars, memory_use_lock, total, ticks, sampled, early,
                   live, failed>>

\* mutant: the totals are accumulated instead of compared
SamplerStoreSum ==
    /\ spc = "store"
    /\ ~MainExited
    /\ max_child_memory_use' = max_child_memory_use + total
    /\ applied' = applied \cup {total}
    /\ spc' = "release"
    /\ UNCHANGED <<mainVars, treeVars, memory_use_lock, total, ticks, sampled, early,
                   live, failed>>

\* run: max_child_memory_use = max(max_child_memory_use, <total>)
SamplerStore ==
    /\ spc = "store"
    /\ ~MainExited
    /\ max_child_memory_use' = Max(max_child_memory_use, total)
    /\ applied' = applied \cup {total}
    /\ spc' = "release"
    /\ UNCHANGED <<mainVars, treeVars, memory_use_lock, total, ticks, sampled, early,
                   live, failed>>

\* mutant: the lock is still held when the thread goes to sleep
SamplerReleaseKeepsLock ==
    /\ spc = "release"
    /\ ~MainExited
    /\ spc' = "sleep"
    /\ UNCHANGED <<mainVars, treeVars, memory_use_lock, max_child_memory_use, total,
                   ticks, sampled, early, live, applied, failed>>

\* run: leaving the with block releases memory_use_lock
SamplerRelease ==
    /\ spc = "release"
    /\ ~MainExited
    /\ memory_use_lock' = "free"
    /\ spc' = "sleep"
    /\ UNCHANGED <<mainVars, treeVars, max_child_memory_use, total, ticks, sampled,
                   early, live, applied, failed>>

\* run: time.sleep(MEMORY_USAGE_POLL_INTERVAL), then the next iteration
SamplerSleep ==
    /\ spc = "sleep"
    /\ ~MainExited
    /\ ticks + 1 < MaxTicks
    /\ ticks' = ticks + 1
    /\ spc' = "acquire"
    /\ UNCHANGED <<mainVars, treeVars, memory_use_lock, max_child_memory_use, total,
                   sampled, early, live, applied, failed>>

\* ---------------------------------------------------------------- Next
MainStep ==
    \/ MainCheckArgv
    \/ FwpPipe
    \/ FwpFork
    \/ FwpCloseW
    \/ MainStartThread
    \/ WfcWaitpid
    \/ WfcRead
    \/ WfcCloseR
    \/ MainAcquire
    \/ MainReport
    \/ MainRelease
    \/ MainCheckStatus
    \/ MainSysExit

TreeStep ==
    \/ ChildExec
    \/ ChildExecFails
    \/ \E p \in Pids : ProcFork(p)
    \/ \E p \in Pids : ProcCloseW(p)
    \/ \E c \in SampleCodes : ChildExit(c)
    \/ \E k \in Kills : ChildKilled(k[1], k[2])
    \/ \E d \in Descendants, ok \in BOOLEAN : DescExit(d, ok)

SamplerStep ==
    \/ SamplerAcquire
    \/ SamplerSnapshot(PsTables)
    \/ SamplerSnapshotRaises
    \/ SamplerStore
    \/ SamplerRelease
    \/ SamplerSleep

Next == MainStep \/ TreeStep \/ SamplerStep

Spec == Init /\ [][Next]_vars

\* The launched command has no descendants and exits normally, with any of the
\* 256 exit codes; the sampler sees one of two small tables.
SoloTables == {<<>>, <<[ok |-> TRUE, rss |-> 1]>>}

NextSolo ==
    \/ MainStep
    \/ ChildExec
    \/ ChildExecFails
    \/ \E c \in ExitCodes : ChildExit(c)
    \/ SamplerAcquire
    \/ SamplerSnapshot(SoloTables)
    \/ SamplerSnapshotRaises
    \/ SamplerStore
    \/ SamplerRelease
    \/ SamplerSleep

SpecSolo == Init /\ [][NextSolo]_vars

\* Scheduling under which the run is judged for termination: the main thread
\* runs whenever it can; its lock acquisition is served although the sampler
\* takes the lock again and again (the lock is free for the whole sleep of
\* MEMORY_USAGE_POLL_INTERVAL seconds); a sampler inside its with block goes on
\* (the snapshot returns or raises); every process of the launched tree ends.
\* For termination the launched command exits with 0 or 1 or is killed, and
\* the sampler sees one of the tables of SoloTables (or its snapshot raises).
FairCodes == {0, 1}
TreeEnds ==
    \/ ChildExec
    \/ ChildExecFails
    \/ \E c \in FairCodes : ChildExit(c)
    \/ \E k \in Kills : ChildKilled(k[1], k[2])
    \/ \E d \in Descendants, ok \in BOOLEAN : DescExit(d, ok)
SamplerInBlock ==
    \/ SamplerSnapshot(SoloTables)
    \/ SamplerSnapshotRaises
    \/ SamplerStore
    \/ SamplerRelease
NextFair ==
    \/ MainStep
    \/ TreeEnds
    \/ \E p \in Pids : ProcFork(p)
    \/ \E p \in Pids : ProcCloseW(p)
    \/ SamplerAcquire
    \/ SamplerInBlock
    \/ SamplerSleep
Fairness ==
    /\ WF_vars(MainStep)
    /\ SF_vars(MainAcquire)
    /\ WF_vars(TreeEnds)
    /\ WF_vars(SamplerInBlock)

SpecFair == Init /\ [][NextFair]_vars /\ Fairness

TypeOK ==
    /\ argv_len \in {1, 2}
    /\ pid \in {0, ChildPid}
    /\ fds \subseteq {"pipe_r", "pipe_w"}
    /\ proc \in [Pids -> {"unborn", "forked", "running", "zombie", "reaped", "dead"}]
    /\ holds_w \subseteq Pids
    /\ launch_failed \in BOOLEAN
    /\ desc_failed \subseteq Descendants
    /\ pipe_data \in Nat
    /\ raw \in -1..(MaxExitCode * StatusShift)
    /\ exit_status \in -1..MaxExitCode
    /\ sup_exit \in -1..MaxExitCode
    /\ memory_use_lock \in {"free", "main", "sampler"}
    /\ max_child_memory_use \in Nat
    /\ ticks \in 0..MaxTicks
    /\ reported \in Nat \cup {-1}

\* ===================================================================
\* Properties
\* ===================================================================
SetMax(S) == CHOOSE x \in S : \A y \in S : x >= y

\* WIFSIGNALED: the low seven bits of the raw status hold the signal number
Signalled(status) == status # -1 /\ status % CoreFlag # 0
\* WIFEXITED with code c
ExitedWith(status, c) == status = c * StatusShift

\* how many times the "Max memory use" line was written
ReportCount == Cardinality({i \in DOMAIN stderr : stderr[i].text = MaxLine(0).text})

\* the supervisor's state of the sequencing state machine, as a rank:
\* 0 STARTING (launch has not returned), 1 CHILD_RUNNING (wait_for_child has not
\* returned), 2 CHILD_DONE (report not finished), 3 REPORTED
SupRank ==
    CASE mpc \in {"check_argv", "pipe", "fork", "close_w"} -> 0
      [] mpc \in {"thread_start", "waitpid", "read", "close_r"} -> 1
      [] mpc \in {"lock", "report", "release"} -> 2
      [] mpc \in {"check_status", "sys_exit"} -> 3
      [] mpc = "exited" -> IF ReportCount > 0 THEN 3 ELSE 0

\* C1: wait_for_child does not return while a process of the launched tree still
\* holds the pipe's write end: once its read has returned, the direct child has
\* been reaped, no live process of the tree holds the write end, and so every
\* descendant that inherited and kept it has exited.
C1_WaitOutlastsTree ==
    ReadReturned =>
        /\ proc[ChildPid] = "reaped"
        /\ "pipe_w" \notin fds
        /\ \A p \in Pids : Alive(p) => p \notin holds_w
        /\ \A d \in Descendants : d \in holds_w => proc[d] = "dead"

\* the child forked a descendant, the descendant has exited and the wait returned
C1_Witness ==
    /\ ReadReturned
    /\ \E d \in Descendants : proc[d] = "dead"

\* C2: for every exit code c in 0..255, a child without descendants that exits
\* normally with code c makes the supervisor terminate with exit code c.
C2_ExitCodePropagated ==
    \A c \in ExitCodes : (MainExited /\ ExitedWith(raw, c)) => sup_exit = c

\* the child exited with the largest code and the supervisor has exited with it
C2_Witness == MainExited /\ ExitedWith(raw, MaxExitCode) /\ sup_exit = MaxExitCode

\* C3 (as claimed): a supervisor whose direct child was terminated by a signal
\* terminates with a non-zero exit status.
C3_SignalledChildFailsSupervisor ==
    (MainExited /\ Signalled(raw)) => sup_exit # 0

\* C4: the supervisor's state only ever advances by one step along STARTING,
\* CHILD_RUNNING, CHILD_DONE, REPORTED; the report is printed at most once, exactly
\* once when REPORTED is reached, only after wait_for_child returned with the
\* whole tree gone, and the step that reads and prints the peak holds the lock.
C4_Inv ==
    /\ ReportCount <= 1
    /\ (ReportCount = 1) = (reported # -1)
    /\ SupRank = 3 => ReportCount = 1
    /\ ReportCount = 1 => ReadReturned /\ TreeGone /\ proc[ChildPid] = "reaped"
C4_Step ==
    /\ SupRank' \in {SupRank, SupRank + 1}
    /\ (stderr' # stderr /\ ReportCount' # ReportCount) =>
            memory_use_lock = "main" /\ memory_use_lock' = "main"
C4_SupervisorSequence == []C4_Inv /\ [][C4_Step]_vars

\* the supervisor has gone through all four states and exited
C4_Witness == MainExited /\ SupRank = 3 /\ ReportCount = 1

\* C5: when the child's exit status is non-zero, the supervisor's stderr is the
\* report followed by the status line by the time it calls sys.exit, and it then
\* terminates with that same status; it never exits with the child's failure
\* status before the report was printed.
C5_ReportBeforeFailureExit ==
    (exit_status > 0 /\ mpc \in {"sys_exit", "exited"}) =>
        /\ reported # -1
        /\ stderr = ReportLines(reported) \o <<StatusLine(exit_status)>>
        /\ sup_exit # -1 => sup_exit = exit_status

\* the child failed with code 1 and the supervisor has exited with it
C5_Witness == MainExited /\ ExitedWith(raw, 1) /\ sup_exit = 1 /\ Len(stderr) = 4

\* C6: the reported peak is at least the total of every snapshot that began
\* before main took the lock for its final read, and at least the total of every
\* snapshot taken while the child or a holder of the write end was still alive.
C6_ReportReflectsEarlierSamples ==
    reported # -1 => \A s \in early \cup live : reported >= s

\* a positive total was sampled while the tree was alive, and it was reported
C6_Witness == reported > 0 /\ live # {} /\ reported = SetMax(early)

\* C7: the peak starts at 0 and no step decreases it.
C7_PeakMonotone ==
    /\ max_child_memory_use = 0
    /\ [][max_child_memory_use' >= max_child_memory_use]_vars

\* a tick stored a total smaller than the peak and the peak was kept
C7_Witness == spc = "release" /\ total < max_child_memory_use

\* C8: the peak, and the value reported, is 0 or a total that some snapshot of
\* this run returned, and the peak is the maximum of 0 and the totals stored.
C8_PeakWasMeasured ==
    /\ max_child_memory_use \in {0} \cup sampled
    /\ max_child_memory_use = SetMax({0} \cup applied)
    /\ reported # -1 =>
        /\ reported \in {0} \cup sampled
        /\ \E v \in {0} \cup sampled : stderr[2] = MaxLine(v)

\* two different totals were stored and the larger one was reported
C8_Witness == Cardinality(applied) >= 2 /\ reported = SetMax(applied)

\* C9 (as claimed): when every snapshot call of the run failed, the supervisor
\* still reports the initial peak 0 and terminates with the child's status: the
\* code of a child that exited, a non-zero status for a child that was killed.
C9_InventoryFailureHarmless ==
    (MainExited /\ failed > 0 /\ sampled = {} /\ raw # -1) =>
        /\ reported = 0
        /\ \A c \in ExitCodes : ExitedWith(raw, c) => sup_exit = c
        /\ Signalled(raw) => sup_exit # 0

\* the part of C9 that the code does satisfy: with every snapshot failing, the
\* report shows 0 and a child that exited normally has its code propagated
C9_HoldsForExitedChild ==
    (MainExited /\ failed > 0 /\ sampled = {} /\ raw # -1) =>
        /\ reported = 0
        /\ \A c \in ExitCodes : ExitedWith(raw, c) => sup_exit = c

\* C10 (as claimed): a failed snapshot does not stop the sampler; it goes on to
\* sleep and to sample again.
C10_FailedTickKeepsSampling ==
    failed > 0 => spc # "dead"
\* C11 (as claimed): when os.execvp fails, the supervisor aborts at once: it never
\* leaves STARTING, never waits on a child and never prints the report.
C11_LaunchFailureIsFatal ==
    launch_failed =>
        /\ SupRank = 0
        /\ ReportCount = 0
        /\ mpc \notin {"waitpid", "read", "close_r"}

\* C12: the supervisor's exit code is a function of the direct child's raw wait
\* status alone (its high byte), whatever statuses the descendants exited with,
\* and no descendant is ever reaped by the supervisor.
C12_ExitFromDirectChildOnly ==
    /\ (MainExited /\ raw # -1) => sup_exit = (raw \div StatusShift) % StatusShift
    /\ \A d \in Descendants : proc[d] # "reaped"
    /\ pid \in {0, ChildPid}

\* the child exited with code MaxExitCode, a descendant exited with a failure
\* status, and the supervisor has exited with the child's code
C12_Witness ==
    /\ MainExited
    /\ ExitedWith(raw, MaxExitCode)
    /\ desc_failed # {}
    /\ sup_exit = MaxExitCode

\* C13: invoked without a command, the supervisor prints the usage text and exits
\* with status 1; it creates no pipe, forks no child and starts no sampler.
C13_UsageExit ==
    argv_len < 2 =>
        /\ mpc \in {"check_argv", "exited"}
        /\ fds = {} /\ pid = 0 /\ spc = "unstarted"
        /\ \A p \in Pids : proc[p] = "unborn"
        /\ MainExited => sup_exit = 1 /\ stderr = <<UsageLine>>

\* the bare invocation has printed the usage text and exited
C13_Witness == argv_len < 2 /\ MainExited /\ sup_exit = 1
\* C14: wait_for_child reaps the direct child before it reads the pipe, and its
\* read returns only after a blocking read with no writer left, also when the
\* child was killed by a signal: every step into the read comes from waitpid
\* with the child reaped, every step out of it leaves no holder of the write end.
C14_Inv ==
    /\ mpc = "read" => proc[ChildPid] = "reaped" /\ exit_status # -1
    /\ (Signalled(raw) /\ ReadReturned) =>
            proc[ChildPid] = "reaped" /\ holds_w = {}
C14_Step ==
    /\ (mpc # "read" /\ mpc' = "read") => mpc = "waitpid" /\ proc'[ChildPid] = "reaped"
    /\ (mpc # "close_r" /\ mpc' = "close_r") => mpc = "read" /\ NoWriters
    /\ (mpc = "waitpid" /\ mpc' # "waitpid") => mpc' = "read"
C14_ReapThenRead == []C14_Inv /\ [][C14_Step]_vars

\* the child was killed by a signal after it had forked a descendant; the
\* descendant has exited too and the read has returned
C14_Witness ==
    /\ Signalled(raw)
    /\ ReadReturned
    /\ \E d \in Descendants : proc[d] = "dead"

\* C15 (as claimed): the sampler thread is started before the child is forked.
C15_SamplerBeforeChild ==
    pid # 0 => spc # "unstarted"

\* C15 (amended): the child is forked before the sampler thread is started: the
\* thread exists only once fork_with_pipe has returned (child forked, the
\* supervisor's write end closed).
C15_ChildBeforeSampler ==
    spc # "unstarted" =>
        /\ pid = ChildPid
        /\ proc[ChildPid] # "unborn"
        /\ "pipe_w" \notin fds

\* the sampler has just been started and the child is already running
C15_Witness == spc = "acquire" /\ mpc = "waitpid" /\ proc[ChildPid] = "running"
InCritical(pc) == pc \in {"sample", "store", "release"}

\* C16: memory_use_lock has at most one owner and the owner is the thread inside
\* its with block; main is never reading the peak while the sampler is inside
\* its read-compare-write; only a sampler step holding the lock changes the peak
\* and only a main step holding the lock reads it for the report.
C16_Inv ==
    /\ (memory_use_lock = "main") = (mpc \in {"report", "release"})
    /\ (memory_use_lock = "sampler") = InCritical(spc)
    /\ ~(mpc \in {"report", "release"} /\ InCritical(spc))
C16_Step ==
    /\ max_child_memory_use' # max_child_memory_use =>
            memory_use_lock = "sampler" /\ spc = "store" /\ UNCHANGED mainVars
    /\ reported' # reported =>
            /\ memory_use_lock = "main"
            /\ ~InCritical(spc)
            /\ UNCHANGED <<max_child_memory_use, samplerVars>>
C16_PeakAccessExclusive == []C16_Inv /\ [][C16_Step]_vars

\* main holds the lock for its read while the sampler, back from a tick, waits
C16_Witness == memory_use_lock = "main" /\ spc = "acquire" /\ ticks > 0

\* C17 (as claimed): the sampler never holds memory_use_lock while it obtains the
\* snapshot or while it sleeps.
C17_LockOnlyForCompareWrite ==
    spc \in {"sample", "sleep"} => memory_use_lock # "sampler"

\* C17 (amended): the sampler holds memory_use_lock from before the snapshot
\* until the peak is stored, and never while it sleeps between ticks.
C17_LockHeldForSnapshotNotSleep ==
    /\ spc \in {"sample", "store", "release"} => memory_use_lock = "sampler"
    /\ spc \in {"unstarted", "acquire", "sleep", "dead"} => memory_use_lock # "sampler"

\* the sampler sleeps after a tick while main holds the lock for its read
C17_Witness == spc = "sleep" /\ memory_use_lock = "main" /\ applied # {}

\* C18: the supervisor never writes to the pipe (it never holds an unread
\* byte); its only operations on the pipe are the creation, closing the write
\* end in fork_with_pipe, the read and closing the read end in wait_for_child;
\* once fork_with_pipe has returned it does not hold the write end.
C18_Inv ==
    /\ pipe_data = 0
    /\ SupRank >= 1 => "pipe_w" \notin fds
    /\ mpc \in {"thread_start", "waitpid", "read", "close_r"} => fds = {"pipe_r"}
C18_Step ==
    /\ fds' # fds =>
            \/ mpc = "pipe" /\ fds' = {"pipe_r", "pipe_w"}
            \/ mpc = "close_w" /\ fds' = fds \ {"pipe_w"}
            \/ mpc = "close_r" /\ fds' = fds \ {"pipe_r"}
    /\ pipe_data' = pipe_data
C18_DetectorNeverWrites == []C18_Inv /\ [][C18_Step]_vars

\* the supervisor is blocked in the read, holding only the read end, while the
\* write end is held by a descendant of the reaped child
C18_Witness ==
    /\ mpc = "read"
    /\ fds = {"pipe_r"}
    /\ \E d \in Descendants : d \in holds_w
\* C19: under the fair scheduling of SpecFair the supervisor always terminates,
\* and a run given a command has then printed the report; and as long as
\* a process of the tree holds the write end the supervisor has neither
\* reported nor exited.
C19_Safety ==
    /\ holds_w # {} => reported = -1 /\ ReportCount = 0 /\ ~MainExited
    /\ (MainExited /\ argv_len >= 2) => ReportCount = 1 /\ sup_exit # -1
C19_ReportsOnceTreeExits ==
    /\ []C19_Safety
    /\ <>MainExited

\* the supervisor has reported and exited, and the tree had a descendant
C19_Witness ==
    /\ MainExited
    /\ ReportCount = 1
    /\ \E d \in Descendants : proc[d] = "dead"

\* C20: a snapshot that raises releases memory_use_lock and leaves the peak as
\* it was; a dead sampler never owns the lock, so main waiting for the lock with
\* the sampler dead finds it free.
C20_Inv ==
    /\ spc = "dead" => memory_use_lock # "sampler" /\ failed > 0
    /\ (spc = "dead" /\ mpc = "lock") => memory_use_lock = "free"
C20_Step ==
    failed' # failed =>
        /\ memory_use_lock = "sampler"
        /\ memory_use_lock' = "free"
        /\ spc' = "dead"
        /\ max_child_memory_use' = max_child_memory_use
C20_FailedSnapshotReleasesLock == []C20_Inv /\ [][C20_Step]_vars

\* the sampler died of a failed snapshot after storing a total, and main then
\* took the lock and reported
C20_Witness == spc = "dead" /\ applied # {} /\ reported # -1
====
